---- MODULE Spec2Model ----
(***************************************************************************)
(* A model of temp_email.py: TempMailClient (generate_email, get_messages, *)
(* wait_for_new_message), EmailMessage.from_api_response and the exception *)
(* classes, together with the remote mail service and the wall clock the   *)
(* client reads.  Clients live in one asyncio event loop: a coroutine runs *)
(* until it awaits asyncio.sleep, and _make_request is a blocking call.    *)
(***************************************************************************)
EXTENDS Integers, Sequences, FiniteSets, TLC

(* ------------------------------ bounds -------------------------------- *)
\* the wall clock runs from 0 to MaxTime
MaxTime == 4
\* the largest timeout a client is constructed with
MaxTimeout == 4
\* the largest check_interval passed to wait_for_new_message
MaxInterval == 2
\* the largest number of records a remote mailbox holds
MaxMsgs == 2
\* the longest a request takes where requests are known to come back
MaxLatency == 1

Sessions == {"s1", "s2"}
Times == 0..(MaxTime + MaxInterval)

(* --------------------------- Python values ---------------------------- *)
\* None, and the value dict.get returns for a missing key
None == "<None>"
\* a key that the remote record does not have
Absent == "<absent>"
\* Python truthiness of an Optional[str]
Truthy(v) == v # None /\ v # ""

(* datetime.isoformat and datetime.fromisoformat on the model's clock     *)
IsoFormat(t) == "1970-01-01T00:00:0" \o ToString(t)
IsIsoFormat(str) == \E t \in Times : IsoFormat(t) = str
FromIsoFormat(str) == CHOOSE t \in Times : IsoFormat(t) = str

(* ------------------------- exception classes -------------------------- *)
TempMailError == "TempMailError"
TempMailAPIError == "TempMailAPIError"
TempMailTimeoutError == "TempMailTimeoutError"
ValueError == "ValueError"
\* asyncio.CancelledError, raised at the await of a task that is cancelled
CancelledError == "CancelledError"
\* the base class of each exception class (Exception is the root of all but
\* CancelledError)
BaseOf(kind) ==
    CASE kind = TempMailAPIError -> TempMailError
      [] kind = TempMailTimeoutError -> TempMailError
      [] kind = CancelledError -> "BaseException"
      [] OTHER -> "Exception"
IsTempMailError(kind) == kind = TempMailError \/ BaseOf(kind) = TempMailError

\* the messages the code raises with
MsgNoSession == "No active email session"
MsgProvisioning == "Failed to generate email address"
MsgHttp == "Request failed: API request failed"
MsgJson == "Invalid JSON response from API"
MsgNetwork == "Request failed"
MsgTimeout(seconds) == "No new messages received within " \o ToString(seconds) \o " seconds"
MsgIso == "Invalid isoformat string"

(* ------------------------- the remote service ------------------------- *)
\* what the transport does with one request
TransportOutcomes == {"ok", "http_error", "bad_json", "network_error"}
\* the values of a field of the POST /mailbox response (None: key missing)
CreateResponses ==
    {[token |-> "t1", mailbox |-> "a1"], [token |-> "t2", mailbox |-> "a2"],
     [token |-> None, mailbox |-> None], [token |-> "t2", mailbox |-> None],
     [token |-> None, mailbox |-> "a2"], [token |-> "", mailbox |-> "a1"]}
\* the records GET /messages can list
RecValid == [from |-> "x", subject |-> "s", bodyPreview |-> "b", createdAt |-> IsoFormat(0)]
RecBare == [from |-> Absent, subject |-> Absent, bodyPreview |-> Absent, createdAt |-> Absent]
RecBadDate == [from |-> "y", subject |-> "s", bodyPreview |-> "b", createdAt |-> "yesterday"]
Records == {RecValid, RecBare, RecBadDate}
\* the bodies GET /messages can answer with when the mailbox holds n records
\* (the service keeps the count between two requests, not the records' order
\* or identity)
Listings(n) == [1..n -> Records]

(* --------------------- EmailMessage.from_api_response ------------------ *)
\* data.get(key, default)
Get(data, key, default) == IF data[key] = Absent THEN default ELSE data[key]
\* the string handed to datetime.fromisoformat
CreatedAtArg(data, clock) == Get(data, "createdAt", IsoFormat(clock))
\* fromisoformat raises ValueError on a string that is not ISO-8601
MappingRaises(data, clock) == ~IsIsoFormat(CreatedAtArg(data, clock))
from_api_response(data, clock) ==
    [sender |-> Get(data, "from", ""),
     subject |-> Get(data, "subject", ""),
     body |-> Get(data, "bodyPreview", ""),
     received_at |-> FromIsoFormat(CreatedAtArg(data, clock))]

(* ------------------------ TempMailClient helpers ---------------------- *)
Raised(kind, msg) == [ok |-> FALSE, kind |-> kind, msg |-> msg, msgs |-> <<>>]
Returned(msgs) == [ok |-> TRUE, kind |-> "", msg |-> "", msgs |-> msgs]
NoFetch == [ok |-> FALSE, kind |-> "", msg |-> "", msgs |-> <<>>]

\* _make_request: the Authorization header sent ("" when none is added)
AuthHeader(tok) == IF Truthy(tok) THEN "Bearer " \o tok ELSE ""
\* _make_request: the exception raised for a transport outcome
RequestError(outcome) ==
    CASE outcome = "http_error" -> Raised(TempMailAPIError, MsgHttp)
      [] outcome = "bad_json" -> Raised(TempMailAPIError, MsgJson)
      [] OTHER -> Raised(TempMailAPIError, MsgNetwork)

\* the headers a caller of _make_request can pass in kwargs['headers'] (a name
\* maps to Absent when the caller does not pass it; no 'headers' at all is
\* NoHeaders, which line 99 turns into an empty dict)
HeaderNames == {"Authorization", "Accept", "UserAgent"}
HeaderValues == {Absent, "v1", "v2"}
CallerHeaders == [HeaderNames -> HeaderValues]
NoHeaders == [h \in HeaderNames |-> Absent]
\* (variant: the caller's headers are replaced by the bearer header alone)
MergeHeaders_Replace(tok, supplied) ==
    IF Truthy(tok) THEN [NoHeaders EXCEPT !["Authorization"] = "Bearer " \o tok]
    ELSE supplied
\* _make_request: the headers of the request after lines 98-100
MergeHeaders(tok, supplied) ==
    IF Truthy(tok) THEN [supplied EXCEPT !["Authorization"] = "Bearer " \o tok]
    ELSE supplied

\* (variant: a test for None that lets the empty token through)
NoSession_OnlyNone(tok) == tok = None
\* get_messages: the precondition test of line 145
NoSession(tok) == ~Truthy(tok)
\* (variant: the list is built newest first)
MapAll_Reversed(records, clock) ==
    [i \in 1..Len(records) |-> from_api_response(records[Len(records) + 1 - i], clock)]
\* get_messages: the list comprehension of line 151
MapAll(records, clock) ==
    [i \in 1..Len(records) |-> from_api_response(records[i], clock)]
\* get_messages: lines 148-151 once the request has returned
MapMessages(outcome, records, clock) ==
    IF outcome # "ok" THEN RequestError(outcome)
    ELSE IF \E i \in 1..Len(records) : MappingRaises(records[i], clock)
         THEN Raised(ValueError, MsgIso)
         ELSE Returned(MapAll(records, clock))

\* (variant: a test of the token alone)
ProvisioningFailed_TokenOnly(tok, mail) == ~Truthy(tok)
\* generate_email: the test of line 130
ProvisioningFailed(tok, mail) == ~Truthy(tok) \/ ~Truthy(mail)

\* (variant: a sleep of twice the interval)
SleepUntil_Double(clock, interval) == clock + 2 * interval
\* wait_for_new_message: when the asyncio.sleep of line 176 is over
SleepUntil(clock, interval) == clock + interval
\* wait_for_new_message: the end_time of line 170
Deadline(clock, seconds) == clock + seconds
\* (variant: a loop test that never fails)
BeforeDeadline_Always(clock, end) == TRUE
\* (variant: a loop that still polls at the deadline itself)
BeforeDeadline_Inclusive(clock, end) == clock <= end
\* (variant: a loop that gives up one time unit early)
BeforeDeadline_Early(clock, end) == clock + 1 < end
\* wait_for_new_message: the loop test of line 172
BeforeDeadline(clock, end) == clock < end
\* (variant: a list that is not empty and not shorter than the baseline)
NewMessageArrived_NotFewer(current, initial) == Len(current) >= initial /\ current # <<>>
\* wait_for_new_message: the test of line 174
NewMessageArrived(current, initial) == Len(current) > initial
\* (variant: the first element instead of the last)
NewestMessage_First(current) == current[1]
\* wait_for_new_message: the value returned at line 175
NewestMessage(current) == current[Len(current)]
\* (variant: a failed poll is swallowed and retried after the sleep)
AfterPoll_Retry(fetch, initial) ==
    IF fetch.ok /\ NewMessageArrived(fetch.msgs, initial) THEN "return" ELSE "sleep"
\* wait_for_new_message: what follows a get_messages call of the loop
AfterPoll(fetch, initial) ==
    IF ~fetch.ok THEN "raise"
    ELSE IF NewMessageArrived(fetch.msgs, initial) THEN "return" ELSE "sleep"

(* ------------------------------- state -------------------------------- *)
VARIABLES
    now,        \* the wall clock, datetime.now()
    clients,    \* the TempMailClient objects constructed in the host
    timeout,    \* self.timeout
    token,      \* self.token
    email,      \* self.email
    pc,         \* where the client's coroutine stands
    op,         \* the public method called last (or running)
    result,     \* what that call returned or raised
    local,      \* the locals of wait_for_new_message
    net,        \* the requests the call has issued through self.scraper
    mailbox,    \* how many records the remote service holds for the client's token
    hist        \* history of the call, kept for the properties

vars == <<now, clients, timeout, token, email, pc, op, result, local, net, mailbox, hist>>

InFlight == {"generate_req", "get_req", "baseline_req", "poll_req"}
\* the event loop's thread is inside a blocking request of another client
Blocked(s) == \E u \in clients \ {s} : pc[u] \in InFlight

NoResult == [status |-> "none", kind |-> "", msg |-> "", addr |-> None, msgs |-> <<>>]
Running == [NoResult EXCEPT !.status = "running"]
Raise(kind, msg) == [NoResult EXCEPT !.status = "raised", !.kind = kind, !.msg = msg]
ReturnAddr(a) == [NoResult EXCEPT !.status = "returned", !.addr = a]
ReturnMsgs(m) == [NoResult EXCEPT !.status = "returned", !.msgs = m]

NoLocal == [initial_count |-> 0, end_time |-> 0, check_interval |-> 0, wake_at |-> 0,
            current_messages |-> NoFetch]
NoNet == [sent |-> 0, header |-> "", headers |-> NoHeaders, sent_at |-> 0]
\* which get_messages call of a wait failed ("baseline" or "poll"), and how
NoFailure == [at |-> "none", kind |-> "", msg |-> ""]
Failure(at, fetch) == [at |-> at, kind |-> fetch.kind, msg |-> fetch.msg]
\* polls: get_messages calls of the loop; steady: every fetch of the wait had the
\* baseline's count; exceeded: the mailbox held more than the baseline before the
\* deadline; seen_more: a poll returned more than the baseline; poll_latency: how
\* long the last poll's request took; ended_at: when the call ended; failure: the
\* get_messages call of the wait that failed; outcome: what the transport did with
\* the last request; records: the records a get_messages call of the host was
\* answered with; granted: the token of the last generate_email that returned;
\* answered: the requests of the call that have come back; supplied: the
\* headers the caller of _make_request passed
NoHist == [polls |-> 0, answered |-> 0, supplied |-> NoHeaders, steady |-> FALSE, exceeded |-> FALSE, seen_more |-> FALSE,
           poll_latency |-> 0, ended_at |-> 0, failure |-> NoFailure,
           outcome |-> "", records |-> <<>>, granted |-> None]

\* __init__: one client, or the clients of a host that runs two sessions
Construct(cs, timeouts) ==
    /\ now = 0
    /\ clients = cs
    /\ timeout \in [Sessions -> timeouts \cup {0}]
    /\ \A s \in Sessions : IF s \in cs THEN timeout[s] \in timeouts ELSE timeout[s] = 0
    /\ token = [s \in Sessions |-> None]
    /\ email = [s \in Sessions |-> None]
    /\ pc = [s \in Sessions |-> "idle"]
    /\ op = [s \in Sessions |-> "none"]
    /\ result = [s \in Sessions |-> NoResult]
    /\ local = [s \in Sessions |-> NoLocal]
    /\ net = [s \in Sessions |-> NoNet]
    /\ mailbox = [s \in Sessions |-> 0]
    /\ hist = [s \in Sessions |-> NoHist]

Init == Construct({"s1"}, 0..MaxTimeout)

(* ------------------------------ requests ------------------------------ *)
\* the request of line 103 as self.scraper receives it: the n-th of the call,
\* with the caller's headers after lines 98-100
Request(s, n, supplied) ==
    [sent |-> n, header |-> AuthHeader(token[s]),
     headers |-> MergeHeaders(token[s], supplied), sent_at |-> now]
\* (variant: the request is sent a second time)
Issue_Twice(s, sofar) ==
    net' = [net EXCEPT ![s] = Request(s, sofar + 2, NoHeaders)]
\* _make_request up to the blocking call of self.scraper, as the public methods
\* call it (without headers of their own): one more request, carrying the
\* bearer header when self.token is set
Issue(s, sofar) ==
    net' = [net EXCEPT ![s] = Request(s, sofar + 1, NoHeaders)]

\* a public method is entered
Enter(s, name) ==
    /\ s \in clients
    /\ pc[s] = "idle"
    /\ ~Blocked(s)
    /\ op' = [op EXCEPT ![s] = name]

\* the call ends: it returned or raised r
Finish(s, r) ==
    /\ pc' = [pc EXCEPT ![s] = "idle"]
    /\ result' = [result EXCEPT ![s] = r]

(* --------------------------- generate_email --------------------------- *)
GenerateEmailCall(s) ==
    /\ Enter(s, "generate_email")
    /\ pc' = [pc EXCEPT ![s] = "generate_req"]
    /\ result' = [result EXCEPT ![s] = Running]
    /\ Issue(s, 0)
    /\ local' = [local EXCEPT ![s] = NoLocal]
    /\ hist' = [hist EXCEPT ![s] = [NoHist EXCEPT !.granted = hist[s].granted]]
    /\ UNCHANGED <<now, clients, timeout, token, email, mailbox>>

GenerateEmailReturn(s, outcome, response) ==
    /\ pc[s] = "generate_req"
    /\ IF outcome # "ok"
       THEN /\ Finish(s, Raise(RequestError(outcome).kind, RequestError(outcome).msg))
            /\ UNCHANGED <<token, email, mailbox>>
            /\ hist' = [hist EXCEPT ![s].ended_at = now, ![s].answered = @ + 1,
                                    ![s].outcome = outcome]
       ELSE /\ token' = [token EXCEPT ![s] = response.token]
            /\ email' = [email EXCEPT ![s] = response.mailbox]
            /\ mailbox' = [mailbox EXCEPT ![s] = 0]
            /\ IF ProvisioningFailed(response.token, response.mailbox)
               THEN /\ Finish(s, Raise(TempMailAPIError, MsgProvisioning))
                    /\ hist' = [hist EXCEPT ![s].ended_at = now, ![s].answered = @ + 1,
                                            ![s].outcome = outcome]
               ELSE /\ Finish(s, ReturnAddr(response.mailbox))
                    /\ hist' = [hist EXCEPT ![s].ended_at = now, ![s].answered = @ + 1,
                                            ![s].outcome = outcome,
                                            ![s].granted = response.token]
    /\ UNCHANGED <<now, clients, timeout, op, local, net>>

(* ----------------------------- get_messages --------------------------- *)
GetMessagesCall(s) ==
    /\ Enter(s, "get_messages")
    /\ local' = [local EXCEPT ![s] = NoLocal]
    /\ IF NoSession(token[s])
       THEN /\ Finish(s, Raise(TempMailAPIError, MsgNoSession))
            /\ net' = [net EXCEPT ![s] = NoNet]
            /\ hist' = [hist EXCEPT ![s] = [NoHist EXCEPT !.granted = hist[s].granted,
                                                          !.ended_at = now]]
       ELSE /\ pc' = [pc EXCEPT ![s] = "get_req"]
            /\ result' = [result EXCEPT ![s] = Running]
            /\ Issue(s, 0)
            /\ hist' = [hist EXCEPT ![s] = [NoHist EXCEPT !.granted = hist[s].granted]]
    /\ UNCHANGED <<now, clients, timeout, token, email, mailbox>>

GetMessagesReturn(s, outcome, records) ==
    /\ pc[s] = "get_req"
    /\ LET fetch == MapMessages(outcome, records, now) IN
          IF fetch.ok
          THEN Finish(s, ReturnMsgs(fetch.msgs))
          ELSE Finish(s, Raise(fetch.kind, fetch.msg))
    /\ hist' = [hist EXCEPT ![s].ended_at = now, ![s].answered = @ + 1,
                            ![s].outcome = outcome,
                            ![s].records = IF outcome = "ok" THEN records ELSE <<>>]
    /\ UNCHANGED <<now, clients, timeout, token, email, op, local, net, mailbox>>

(* ------------------------- wait_for_new_message ----------------------- *)
\* the history of a call that starts: only the token granted last is kept
NewHist(s) == [NoHist EXCEPT !.granted = hist[s].granted]

\* line 172 and what follows it: the next poll's get_messages up to its
\* request, or the raise of line 178; loc and h are the locals and the
\* history so far
LoopTop(s, loc, h) ==
    IF BeforeDeadline(now, loc.end_time)
    THEN IF NoSession(token[s])
         THEN /\ Finish(s, Raise(TempMailAPIError, MsgNoSession))
              /\ local' = [local EXCEPT ![s] = loc]
              /\ hist' = [hist EXCEPT ![s] = [h EXCEPT !.ended_at = now]]
              /\ UNCHANGED net
         ELSE /\ pc' = [pc EXCEPT ![s] = "poll_req"]
              /\ Issue(s, net[s].sent)
              /\ local' = [local EXCEPT ![s] = loc]
              /\ hist' = [hist EXCEPT ![s] = [h EXCEPT !.polls = @ + 1]]
              /\ UNCHANGED result
    ELSE /\ Finish(s, Raise(TempMailTimeoutError, MsgTimeout(timeout[s])))
         /\ local' = [local EXCEPT ![s] = loc]
         /\ hist' = [hist EXCEPT ![s] = [h EXCEPT !.ended_at = now]]
         /\ UNCHANGED net

\* line 167 up to the request of the first get_messages
WaitCall(s, interval) ==
    /\ Enter(s, "wait_for_new_message")
    /\ local' = [local EXCEPT ![s] = [NoLocal EXCEPT !.check_interval = interval]]
    /\ IF NoSession(token[s])
       THEN /\ Finish(s, Raise(TempMailAPIError, MsgNoSession))
            /\ net' = [net EXCEPT ![s] = NoNet]
            /\ hist' = [hist EXCEPT ![s] = [NewHist(s) EXCEPT !.ended_at = now]]
       ELSE /\ pc' = [pc EXCEPT ![s] = "baseline_req"]
            /\ result' = [result EXCEPT ![s] = Running]
            /\ Issue(s, 0)
            /\ hist' = [hist EXCEPT ![s] = NewHist(s)]
    /\ UNCHANGED <<now, clients, timeout, token, email, mailbox>>

\* lines 167-172: the first get_messages returns, then the loop is entered
BaselineReturn(s, outcome, records) ==
    /\ pc[s] = "baseline_req"
    /\ LET fetch == MapMessages(outcome, records, now)
           h == [hist[s] EXCEPT
                    !.steady = fetch.ok,
                    !.answered = @ + 1,
                    !.outcome = outcome,
                    !.failure = IF fetch.ok THEN @ ELSE Failure("baseline", fetch)]
       IN IF ~fetch.ok
          THEN /\ Finish(s, Raise(fetch.kind, fetch.msg))
               /\ hist' = [hist EXCEPT ![s] = [h EXCEPT !.ended_at = now]]
               /\ UNCHANGED <<local, net>>
          ELSE LoopTop(s, [local[s] EXCEPT !.initial_count = Len(fetch.msgs),
                                           !.end_time = Deadline(now, timeout[s])], h)
    /\ UNCHANGED <<now, clients, timeout, token, email, op, mailbox>>

\* lines 173-176: a get_messages of the loop returns
PollReturn(s, outcome, records) ==
    /\ pc[s] = "poll_req"
    /\ LET fetch == MapMessages(outcome, records, now)
           todo == AfterPoll(fetch, local[s].initial_count)
           h == [hist[s] EXCEPT
                    !.poll_latency = now - net[s].sent_at,
                    !.steady = @ /\ fetch.ok /\ Len(fetch.msgs) = local[s].initial_count,
                    !.seen_more = @ \/ (fetch.ok /\ Len(fetch.msgs) > local[s].initial_count),
                    !.answered = @ + 1,
                    !.outcome = outcome,
                    !.failure = IF fetch.ok THEN @ ELSE Failure("poll", fetch)]
       IN CASE todo = "raise" ->
                 /\ Finish(s, Raise(fetch.kind, fetch.msg))
                 /\ local' = [local EXCEPT ![s].current_messages = fetch]
                 /\ hist' = [hist EXCEPT ![s] = [h EXCEPT !.ended_at = now]]
            [] todo = "return" ->
                 /\ Finish(s, ReturnMsgs(<<NewestMessage(fetch.msgs)>>))
                 /\ local' = [local EXCEPT ![s].current_messages = fetch]
                 /\ hist' = [hist EXCEPT ![s] = [h EXCEPT !.ended_at = now]]
            [] OTHER ->
                 /\ pc' = [pc EXCEPT ![s] = "sleeping"]
                 /\ local' = [local EXCEPT ![s].current_messages = fetch,
                                           ![s].wake_at =
                                               SleepUntil(now, local[s].check_interval)]
                 /\ hist' = [hist EXCEPT ![s] = h]
                 /\ UNCHANGED result
    /\ UNCHANGED <<now, clients, timeout, token, email, op, net, mailbox>>

\* (variant: the loop goes on while its get_messages is still in flight)
Ready_NotAwaited(s) ==
    s \in clients /\ pc[s] \in {"sleeping", "poll_req"} /\ local[s].wake_at <= now /\ ~Blocked(s)
\* a coroutine whose sleep is over and that the event loop can resume
Ready(s) == s \in clients /\ pc[s] = "sleeping" /\ local[s].wake_at <= now /\ ~Blocked(s)

\* asyncio.sleep is over and the event loop resumes the coroutine at line 172
Wake(s) ==
    /\ Ready(s)
    /\ LoopTop(s, local[s], hist[s])
    /\ UNCHANGED <<now, clients, timeout, token, email, op, mailbox>>

(* ------------------------ clock and remote service -------------------- *)
\* time passes while a call is in progress (the time between two calls of the
\* host is not observed); the event loop resumes a ready coroutine before it does
Tick ==
    /\ now < MaxTime
    /\ \E s \in clients : pc[s] # "idle"
    /\ \A s \in Sessions : ~Ready(s)
    /\ now' = now + 1
    /\ UNCHANGED <<clients, timeout, token, email, pc, op, result, local, net, mailbox, hist>>

\* the wait of s has taken its baseline and its deadline is still ahead
Waiting(s) == pc[s] \in {"poll_req", "sleeping"} /\ now < local[s].end_time

\* the remote mailbox comes to hold n records
Deliver(s, n) ==
    /\ mailbox' = [mailbox EXCEPT ![s] = n]
    /\ hist' = [hist EXCEPT ![s].exceeded = @ \/ (Waiting(s) /\ n > local[s].initial_count)]
    /\ UNCHANGED <<now, clients, timeout, token, email, pc, op, result, local, net>>

\* a mail arrives at the address of s
Arrive(s) ==
    /\ s \in clients
    /\ Truthy(token[s])
    /\ mailbox[s] < MaxMsgs
    /\ Deliver(s, mailbox[s] + 1)

\* the service drops a mail of s
Delete(s) ==
    /\ s \in clients
    /\ mailbox[s] > 0
    /\ Deliver(s, mailbox[s] - 1)

(* ---------------------------- specification --------------------------- *)
Intervals == 1..MaxInterval

Next ==
    \/ \E s \in Sessions : GenerateEmailCall(s)
    \/ \E s \in Sessions, outcome \in TransportOutcomes, response \in CreateResponses :
          GenerateEmailReturn(s, outcome, response)
    \/ \E s \in Sessions : GetMessagesCall(s)
    \/ \E s \in Sessions : \E outcome \in TransportOutcomes, records \in Listings(mailbox[s]) :
          GetMessagesReturn(s, outcome, records)
    \/ \E s \in Sessions, interval \in Intervals : WaitCall(s, interval)
    \/ \E s \in Sessions : \E outcome \in TransportOutcomes, records \in Listings(mailbox[s]) :
          BaselineReturn(s, outcome, records)
    \/ \E s \in Sessions : \E outcome \in TransportOutcomes, records \in Listings(mailbox[s]) :
          PollReturn(s, outcome, records)
    \/ \E s \in Sessions : Wake(s)
    \/ Tick
    \/ \E s \in Sessions : Arrive(s)
    \/ \E s \in Sessions : Delete(s)

Spec == Init /\ [][Next]_vars

(* A host that runs main() for two clients in one event loop: each client   *)
(* provisions its mailbox and then waits, and the service answers every     *)
(* request with success.                                                    *)
HostTimeout == 2
HostInterval == 1
InitHost == Construct(Sessions, {HostTimeout})
HostResponse(s) ==
    IF s = "s1" THEN [token |-> "t1", mailbox |-> "a1"] ELSE [token |-> "t2", mailbox |-> "a2"]
HostListing(n) == [i \in 1..n |-> RecValid]

NextHost ==
    \/ \E s \in Sessions : op[s] = "none" /\ GenerateEmailCall(s)
    \/ \E s \in Sessions : GenerateEmailReturn(s, "ok", HostResponse(s))
    \/ \E s \in Sessions : op[s] = "generate_email" /\ WaitCall(s, HostInterval)
    \/ \E s \in Sessions : BaselineReturn(s, "ok", HostListing(mailbox[s]))
    \/ \E s \in Sessions : PollReturn(s, "ok", HostListing(mailbox[s]))
    \/ \E s \in Sessions : Wake(s)
    \/ Tick
    \/ \E s \in Sessions : Arrive(s)

SpecHost == InitHost /\ [][NextHost]_vars

(* A host whose calls run to their end: every request comes back within     *)
(* MaxLatency, the event loop resumes a coroutine whose sleep is over, time  *)
(* goes on, and a wait is only started when the latest time it can end at    *)
(* lies within the clock's range. The mailbox is provisioned with a         *)
(* complete response or not at all.                                          *)
\* the latest time a wait entered at time t can end at: its baseline fetch is
\* back by t + MaxLatency, its last poll starts before the deadline, comes back
\* MaxLatency later at most, and the sleep that follows is the last one
LatestEnd(t, seconds, interval) ==
    IF seconds = 0 THEN t + MaxLatency
    ELSE t + MaxLatency + seconds - 1 + MaxLatency + interval
\* time passes, but not beyond MaxLatency for a request in flight
TickLive ==
    /\ \A s \in clients : pc[s] \in InFlight => now - net[s].sent_at < MaxLatency
    /\ Tick
BaselineReturns ==
    \E s \in Sessions : \E outcome \in TransportOutcomes, records \in Listings(mailbox[s]) :
        BaselineReturn(s, outcome, records)
PollReturns ==
    \E s \in Sessions : \E outcome \in TransportOutcomes, records \in Listings(mailbox[s]) :
        PollReturn(s, outcome, records)
Resumes == \E s \in Sessions : Wake(s)

NextLive ==
    \/ \E s \in Sessions : GenerateEmailCall(s)
    \/ \E s \in Sessions, outcome \in TransportOutcomes :
          GenerateEmailReturn(s, outcome, HostResponse(s))
    \/ \E s \in Sessions, interval \in Intervals :
          LatestEnd(now, timeout[s], interval) <= MaxTime /\ WaitCall(s, interval)
    \/ BaselineReturns
    \/ PollReturns
    \/ Resumes
    \/ TickLive
    \/ \E s \in Sessions : Arrive(s)
    \/ \E s \in Sessions : Delete(s)

SpecLive ==
    /\ Init /\ [][NextLive]_vars
    /\ WF_vars(BaselineReturns) /\ WF_vars(PollReturns) /\ WF_vars(Resumes) /\ WF_vars(TickLive)

(* A host that may cancel a wait: the task is cancelled while the coroutine  *)
(* is suspended at the asyncio.sleep of line 176, CancelledError is raised  *)
(* there and, no handler being in the way, leaves wait_for_new_message.     *)
\* (variant: the session is dropped when the wait is cancelled)
Cancel_DropsSession(s) ==
    /\ s \in clients
    /\ pc[s] = "sleeping"
    /\ ~Blocked(s)
    /\ Finish(s, Raise(CancelledError, ""))
    /\ token' = [token EXCEPT ![s] = None]
    /\ email' = [email EXCEPT ![s] = None]
    /\ hist' = [hist EXCEPT ![s].ended_at = now]
    /\ UNCHANGED <<now, clients, timeout, op, local, net, mailbox>>
\* line 176: the sleep is interrupted by the cancellation of the task
Cancel(s) ==
    /\ s \in clients
    /\ pc[s] = "sleeping"
    /\ ~Blocked(s)
    /\ Finish(s, Raise(CancelledError, ""))
    /\ hist' = [hist EXCEPT ![s].ended_at = now]
    /\ UNCHANGED <<now, clients, timeout, token, email, op, local, net, mailbox>>

NextCancel ==
    \/ Next
    \/ \E s \in Sessions : Cancel(s)

SpecCancel == Init /\ [][NextCancel]_vars

(* A caller of _make_request that passes headers of its own, on a session   *)
(* in any of the states generate_email can leave it in.                     *)
\* lines 97-113 as one step: the request is sent and its outcome comes back
DirectRequest(s, supplied, outcome) ==
    /\ Enter(s, "_make_request")
    /\ net' = [net EXCEPT ![s] = Request(s, 1, supplied)]
    /\ IF outcome = "ok"
       THEN Finish(s, [NoResult EXCEPT !.status = "returned"])
       ELSE Finish(s, Raise(RequestError(outcome).kind, RequestError(outcome).msg))
    /\ local' = [local EXCEPT ![s] = NoLocal]
    /\ hist' = [hist EXCEPT ![s] = [NewHist(s) EXCEPT !.supplied = supplied,
                                                      !.answered = 1,
                                                      !.outcome = outcome,
                                                      !.ended_at = now]]
    /\ UNCHANGED <<now, clients, timeout, token, email, mailbox>>

InitRequest == Construct({"s1"}, {HostTimeout})

NextRequest ==
    \/ \E s \in Sessions : GenerateEmailCall(s)
    \/ \E s \in Sessions, outcome \in TransportOutcomes, response \in CreateResponses :
          GenerateEmailReturn(s, outcome, response)
    \/ \E s \in Sessions, supplied \in CallerHeaders, outcome \in TransportOutcomes :
          DirectRequest(s, supplied, outcome)

SpecRequest == InitRequest /\ [][NextRequest]_vars

(* ------------------------------ properties ---------------------------- *)
WaitOf(s) == s \in clients /\ op[s] = "wait_for_new_message"
\* the wait of s has ended
WaitOver(s) == WaitOf(s) /\ pc[s] = "idle"
\* the last get_messages of the wait's loop returned more than the baseline
PolledMore(s) ==
    /\ local[s].current_messages.ok
    /\ Len(local[s].current_messages.msgs) > local[s].initial_count
TimedOut(s) ==
    WaitOver(s) /\ result[s].status = "raised" /\ result[s].kind = TempMailTimeoutError
Ceil(a, b) == (a + b - 1) \div b

\* C1: a poll of wait_for_new_message that returns more elements than the
\* baseline count ends the wait at that poll (the loop neither sleeps nor polls
\* again), and the wait returns the last element of that poll's sequence; a wait
\* returns a message in no other case.
C1_ReturnsLastOfPoll ==
    \A s \in Sessions : WaitOf(s) =>
        /\ PolledMore(s) =>
              /\ pc[s] = "idle"
              /\ result[s].status = "returned"
              /\ result[s].msgs =
                    <<local[s].current_messages.msgs[Len(local[s].current_messages.msgs)]>>
        /\ result[s].status = "returned" => PolledMore(s)

C1_Witness ==
    \E s \in Sessions :
        /\ WaitOver(s) /\ result[s].status = "returned"
        /\ Len(local[s].current_messages.msgs) = 2
        /\ local[s].initial_count = 1
        /\ local[s].current_messages.msgs[1] # local[s].current_messages.msgs[2]
        /\ hist[s].polls > 1

\* C2 as claimed: a wait that fails with the wait-timeout error means that the
\* remote mailbox never held more messages than the baseline count between the
\* baseline capture and the deadline.
C2_TimeoutMeansNothingArrived ==
    \A s \in Sessions : TimedOut(s) => ~hist[s].exceeded

\* C2 as amended: a wait that fails with the wait-timeout error has reached its
\* deadline, and no poll it issued returned more messages than the baseline.
C2_TimeoutMeansNoPollSawMore ==
    \A s \in Sessions : TimedOut(s) =>
        /\ hist[s].ended_at >= local[s].end_time
        /\ ~hist[s].seen_more
        /\ ~PolledMore(s)
        /\ hist[s].failure.at = "none"

C2_Witness ==
    \E s \in Sessions : TimedOut(s) /\ hist[s].exceeded /\ hist[s].polls > 1

\* C3: get_messages and wait_for_new_message called on a client whose token is
\* unset (None or empty) raise the no-active-session error, and the call issues
\* no request.
C3_NoSessionNoRequest ==
    \A s \in Sessions :
        (s \in clients /\ op[s] \in {"get_messages", "wait_for_new_message"}
                       /\ ~Truthy(token[s])) =>
            /\ pc[s] = "idle"
            /\ result[s].status = "raised"
            /\ result[s].msg = MsgNoSession
            /\ net[s].sent = 0

C3_Witness ==
    \E s \in Sessions :
        /\ WaitOver(s) /\ token[s] = "" /\ email[s] = "a1"
        /\ result[s].msg = MsgNoSession

\* C4: when a get_messages call of a wait fails (the baseline fetch or a poll),
\* the wait has ended raising that very failure, the failing request is the last
\* one the wait issued and no sleep follows it; after a failing baseline fetch no
\* poll was attempted.
C4_FailurePropagates ==
    \A s \in Sessions : (WaitOf(s) /\ hist[s].failure.at # "none") =>
        /\ pc[s] = "idle"
        /\ result[s].status = "raised"
        /\ result[s].kind = hist[s].failure.kind
        /\ result[s].msg = hist[s].failure.msg
        /\ result[s].kind # TempMailTimeoutError
        /\ net[s].sent = hist[s].polls + 1
        /\ hist[s].failure.at = "baseline" => hist[s].polls = 0

C4_Witness ==
    \E s \in Sessions :
        /\ WaitOver(s) /\ hist[s].failure.at = "poll" /\ hist[s].polls = 2
        /\ result[s].msg = MsgHttp

\* C5 as claimed: when every get_messages call of a wait returns the baseline's
\* count, the wait ends with the wait-timeout error no earlier than the deadline
\* and no later than one check interval after it, having issued at most
\* ceil(timeout / check_interval) + 1 polls, at least one when the timeout is
\* positive, and between 2 and 5 when the timeout is four check intervals.
C5_TimeoutWithinOneInterval ==
    \A s \in Sessions : (WaitOver(s) /\ hist[s].steady) =>
        /\ TimedOut(s)
        /\ hist[s].ended_at >= local[s].end_time
        /\ hist[s].ended_at <= local[s].end_time + local[s].check_interval
        /\ hist[s].polls <= Ceil(timeout[s], local[s].check_interval) + 1
        /\ timeout[s] > 0 => hist[s].polls >= 1
        /\ timeout[s] = 4 * local[s].check_interval => hist[s].polls \in 2..5

\* C5 as amended: such a wait ends with the wait-timeout error no earlier than
\* the deadline and no later than one check interval plus the duration of its
\* last poll's request after it, having issued at most
\* ceil(timeout / check_interval) + 1 polls and at least one when the timeout is
\* positive (between 1 and 5 when the timeout is four check intervals).
C5_TimeoutWithinIntervalAndLatency ==
    \A s \in Sessions : (WaitOver(s) /\ hist[s].steady) =>
        /\ TimedOut(s)
        /\ hist[s].ended_at >= local[s].end_time
        /\ hist[s].ended_at <=
              local[s].end_time + local[s].check_interval + hist[s].poll_latency
        /\ hist[s].polls <= Ceil(timeout[s], local[s].check_interval) + 1
        /\ timeout[s] > 0 => hist[s].polls >= 1
        /\ timeout[s] = 4 * local[s].check_interval => hist[s].polls \in 1..5

C5_Witness ==
    \E s \in Sessions :
        /\ WaitOver(s) /\ hist[s].steady
        /\ timeout[s] = 4 /\ local[s].check_interval = 1
        /\ hist[s].polls = 4
        /\ local[s].initial_count = 2

\* C6: generate_email answered with a non-empty token and address returns the
\* address and stores both, and every request of a later get_messages (alone or
\* inside a wait) carries "Bearer t" for the token t of the last generate_email
\* that returned.
C6_BearerOfGrantedToken ==
    \A s \in Sessions :
        /\ (s \in clients /\ op[s] = "generate_email" /\ result[s].status = "returned") =>
              /\ Truthy(email[s]) /\ result[s].addr = email[s]
              /\ Truthy(token[s]) /\ token[s] = hist[s].granted
        /\ (s \in clients /\ op[s] \in {"get_messages", "wait_for_new_message"}
                          /\ hist[s].granted # None /\ net[s].sent > 0) =>
              net[s].header = "Bearer " \o hist[s].granted

\* C7: when the transport answers POST /mailbox with success but the response
\* lacks the token, the address or both, generate_email raises the provisioning
\* error and returns no address.
C7_MissingFieldRaises ==
    \A s \in Sessions :
        (s \in clients /\ op[s] = "generate_email" /\ pc[s] = "idle"
                       /\ hist[s].outcome = "ok"
                       /\ (~Truthy(token[s]) \/ ~Truthy(email[s]))) =>
            /\ result[s].status = "raised"
            /\ result[s].msg = MsgProvisioning
            /\ result[s].addr = None

C7_Witness ==
    \E s \in Sessions :
        /\ op[s] = "generate_email" /\ pc[s] = "idle" /\ hist[s].outcome = "ok"
        /\ token[s] = "t2" /\ email[s] = None
        /\ result[s].msg = MsgProvisioning

\* C8: whatever the createdAt of the records listed (valid, missing or invalid),
\* get_messages returns one Message per record, and the received_at of a record
\* whose createdAt is missing or invalid is the time of the mapping; no poll of
\* a wait fails once the transport has answered with success.
C8_EveryRecordMaps ==
    \A s \in Sessions :
        /\ (s \in clients /\ op[s] = "get_messages" /\ pc[s] = "idle"
                          /\ hist[s].outcome = "ok") =>
              /\ result[s].status = "returned"
              /\ Len(result[s].msgs) = Len(hist[s].records)
              /\ \A i \in 1..Len(result[s].msgs) :
                    (hist[s].records[i].createdAt = Absent
                        \/ ~IsIsoFormat(hist[s].records[i].createdAt)) =>
                    result[s].msgs[i].received_at = hist[s].ended_at
        /\ (WaitOf(s) /\ pc[s] \notin InFlight /\ hist[s].outcome = "ok") =>
              hist[s].failure.at = "none"

\* C9: every failure a public method raises is a TempMailError, the failure of a
\* call without a session and the failure of a create-mailbox response lacking a
\* field are of kinds other than the one transport failures have, and the
\* wait-timeout kind is raised for the timeout alone.
TransportKinds == {RequestError(outcome).kind : outcome \in TransportOutcomes \ {"ok"}}

C9_FailureKindsDistinct ==
    \A s \in Sessions : result[s].status = "raised" =>
        /\ IsTempMailError(result[s].kind)
        /\ result[s].msg = MsgNoSession => result[s].kind \notin TransportKinds
        /\ result[s].msg = MsgProvisioning => result[s].kind \notin TransportKinds
        /\ result[s].kind = TempMailTimeoutError <=> result[s].msg = MsgTimeout(timeout[s])

\* C10: while the wait of one client has a request in flight, the wait of another
\* client whose sleep is over can take its step.
C10_WaitsDoNotStall ==
    \A s \in Sessions : \A u \in Sessions \ {s} :
        (WaitOf(s) /\ pc[s] \in InFlight /\ WaitOf(u) /\ pc[u] = "sleeping"
                   /\ local[u].wake_at <= now) => ENABLED Wake(u)

\* C11: a get_messages call that returns has answered with one Message per
\* record of the response, the i-th Message being the mapping of the i-th record
C11_OneMessagePerRecordInOrder ==
    \A s \in clients :
        (op[s] = "get_messages" /\ pc[s] = "idle" /\ result[s].status = "returned")
        => /\ Len(result[s].msgs) = Len(hist[s].records)
           /\ \A i \in 1..Len(hist[s].records) :
                  result[s].msgs[i] = from_api_response(hist[s].records[i], hist[s].ended_at)
\* a listing of two different records has been returned
C11_Witness ==
    \E s \in clients :
        /\ op[s] = "get_messages" /\ pc[s] = "idle" /\ result[s].status = "returned"
        /\ hist[s].records = <<RecValid, RecBare>>
        /\ Len(result[s].msgs) = 2
        /\ result[s].msgs[1] # result[s].msgs[2]

\* the list of the poll that returned last is no longer than the baseline
PolledNoMore(s) ==
    local[s].current_messages.ok
    /\ Len(local[s].current_messages.msgs) <= local[s].initial_count
C12_Step ==
    \A s \in clients :
        \* the baseline is the count of the fetch of step 0 ...
        /\ (pc[s] = "baseline_req" /\ pc'[s] \in {"poll_req", "idle"}
                /\ hist'[s].failure.at = "none")
           => local'[s].initial_count = mailbox[s]
        \* ... and no later step of the wait changes it
        /\ pc[s] \in {"poll_req", "sleeping"}
           => local'[s].initial_count = local[s].initial_count
        \* a poll that returns decides by its count against the baseline alone
        /\ (pc[s] = "poll_req" /\ pc'[s] # "poll_req")
           => /\ result'[s].status = "returned" => PolledMore(s)'
              /\ PolledNoMore(s)' => (pc'[s] = "sleeping" /\ result'[s] = Running)
\* C12: a wait returns a message only from a poll whose count exceeds the
\* baseline count of its first fetch; the baseline is never updated during the
\* wait, and a poll whose count is lower or equal yields no message.
C12_OnlyGrowthOverBaseline == [][C12_Step]_vars
\* counts 2, then fewer, then 2 again: the wait has timed out
C12_Witness ==
    \E s \in clients :
        /\ TimedOut(s)
        /\ local[s].initial_count = 2
        /\ hist[s].polls >= 2
        /\ ~hist[s].steady
        /\ local[s].current_messages.ok
        /\ Len(local[s].current_messages.msgs) = 2

\* C13: in every state the stored token and the stored address are both set or
\* both unset, so a get_messages call that passes its precondition runs on a
\* session that holds an address.
C13_TokenAndAddressTogether ==
    \A s \in clients :
        /\ Truthy(token[s]) <=> Truthy(email[s])
        /\ (op[s] = "get_messages" /\ pc[s] = "get_req") => Truthy(email[s])

\* the requests of client s that have been sent and have not come back
Outstanding(s) == net[s].sent - hist[s].answered
\* C14: the requests of one session never overlap: a request is only sent when
\* every earlier request of the call has come back, so at most one request of a
\* session has been sent and not answered, inside a wait as elsewhere.
C14_RequestsNeverOverlap ==
    \A s \in clients :
        /\ Outstanding(s) = IF pc[s] \in InFlight THEN 1 ELSE 0
        /\ pc[s] = "poll_req" => hist[s].answered = hist[s].polls
\* the second poll of a wait is in flight, after the first has returned
C14_Witness ==
    \E s \in clients :
        /\ WaitOf(s) /\ pc[s] = "poll_req"
        /\ hist[s].polls = 2 /\ net[s].sent = 3 /\ hist[s].answered = 2
        /\ local[s].current_messages.ok

\* the call of client s was stopped by the precondition of get_messages
Refused(s) ==
    pc[s] = "idle" /\ result[s].status = "raised" /\ result[s].msg = MsgNoSession
\* C15: no request is retried or served from a cache: a generate_email call and
\* a get_messages call that passes its precondition send exactly one request,
\* whatever its outcome, and a wait sends one request for its baseline and one
\* per poll; a call that is over has had an answer to each of them.
C15_OneRequestPerFetch ==
    \A s \in clients :
        /\ op[s] = "generate_email" => net[s].sent = 1
        /\ op[s] = "get_messages" => net[s].sent = IF Refused(s) THEN 0 ELSE 1
        /\ WaitOf(s) =>
              net[s].sent = IF Refused(s) /\ hist[s].answered = 0 THEN 0
                            ELSE 1 + hist[s].polls
        /\ (op[s] # "none" /\ pc[s] = "idle") => hist[s].answered = net[s].sent
\* a wait whose second poll failed has sent three requests
C15_Witness ==
    \E s \in clients :
        /\ WaitOver(s) /\ hist[s].failure.at = "poll"
        /\ hist[s].polls = 2 /\ net[s].sent = 3 /\ hist[s].answered = 3

\* a step in which the baseline fetch of client s comes back with its list
BaselineBack(s) ==
    pc[s] = "baseline_req" /\ pc'[s] # "baseline_req" /\ hist'[s].failure.at = "none"
\* a step in which a poll of client s starts
PollStarts(s) == pc'[s] = "poll_req" /\ hist'[s].polls = hist[s].polls + 1
C16_Step ==
    \A s \in clients :
        \* computed when the baseline fetch returns, from the time it returns
        /\ BaselineBack(s) => local'[s].end_time = now + timeout[s]
        \* never extended
        /\ pc[s] \in {"poll_req", "sleeping"} => local'[s].end_time = local[s].end_time
        \* every poll starts before it
        /\ PollStarts(s) => now' < local'[s].end_time
        \* tested again after every sleep
        /\ (pc[s] = "sleeping" /\ pc'[s] # "sleeping")
           => IF now < local[s].end_time THEN PollStarts(s)
              ELSE TimedOut(s)' /\ hist'[s].polls = hist[s].polls
        \* a timeout of 0
        /\ (BaselineBack(s) /\ timeout[s] = 0)
           => TimedOut(s)' /\ hist'[s].polls = 0 /\ hist'[s].ended_at = now
\* C16: the deadline of a wait is the time its baseline fetch returned plus the
\* configured timeout, is never changed afterwards, is tested after every sleep,
\* and every poll starts strictly before it; with a timeout of 0 the wait times
\* out when the baseline fetch returns, without a poll.
C16_DeadlineFixedAndRespected == [][C16_Step]_vars
\* a wait has polled twice, slept, and timed out at a deadline later than its start
C16_Witness ==
    \E s \in clients :
        /\ TimedOut(s) /\ hist[s].polls >= 2
        /\ timeout[s] > 0
        /\ hist[s].ended_at >= local[s].end_time
        /\ local[s].end_time > timeout[s]

\* the wait of s is in progress
WaitRuns(s) == WaitOf(s) /\ pc[s] # "idle"
\* the three ways a wait ends
EndsWithMessage(s) ==
    result[s].status = "returned" /\ Len(result[s].msgs) = 1 /\ hist[s].failure.at = "none"
EndsWithTimeout(s) == TimedOut(s) /\ hist[s].failure.at = "none"
EndsWithFailure(s) ==
    /\ result[s].status = "raised" /\ hist[s].failure.at # "none"
    /\ result[s].kind = hist[s].failure.kind /\ result[s].msg = hist[s].failure.msg
EndsOneWay(s) ==
    /\ WaitOver(s)
    /\ EndsWithMessage(s) \/ EndsWithTimeout(s) \/ EndsWithFailure(s)
    /\ ~(EndsWithMessage(s) /\ EndsWithTimeout(s))
    /\ ~(EndsWithMessage(s) /\ EndsWithFailure(s))
    /\ ~(EndsWithTimeout(s) /\ EndsWithFailure(s))
\* C17: where requests come back and time goes on, every wait that is in
\* progress ends, and it ends in exactly one of three ways: with a message, with
\* the timeout error, or with the failure of one of its get_messages calls.
C17_WaitEnds == \A s \in Sessions : WaitRuns(s) ~> EndsOneWay(s)
\* a wait has ended after two polls and a sleep
C17_Witness ==
    \E s \in clients : EndsOneWay(s) /\ hist[s].polls >= 2 /\ EndsWithMessage(s)

C18_Step ==
    /\ timeout' = timeout
    /\ \A s \in clients :
          op'[s] \in {"get_messages", "wait_for_new_message"}
          => token'[s] = token[s] /\ email'[s] = email[s]
\* C18: no step of a get_messages or wait_for_new_message call, whether it goes
\* on, returns, raises or is cancelled at its sleep, changes the stored token or
\* the stored address, and no step of any call changes the configured timeout.
C18_ReadsLeaveSessionAlone == [][C18_Step]_vars
\* a wait of a provisioned session has been cancelled at a sleep
C18_Witness ==
    \E s \in clients :
        /\ WaitOver(s) /\ result[s].status = "raised" /\ result[s].kind = CancelledError
        /\ hist[s].polls >= 1
        /\ token[s] = hist[s].granted /\ Truthy(email[s])

\* the address the service granted together with token tok
AddressOf(tok) ==
    (CHOOSE r \in CreateResponses : r.token = tok /\ Truthy(r.mailbox)).mailbox
\* C19: on a session that holds the identity of an earlier generate_email call
\* that returned, a generate_email call that failed has left that identity
\* stored: the token granted then, and the address granted with it.
C19_FailedProvisioningKeepsIdentity ==
    \A s \in clients :
        (op[s] = "generate_email" /\ pc[s] = "idle" /\ result[s].status = "raised"
            /\ Truthy(hist[s].granted))
        => /\ token[s] = hist[s].granted
           /\ email[s] = AddressOf(hist[s].granted)

\* client s has called _make_request last
Requested(s) == s \in clients /\ op[s] = "_make_request" /\ net[s].sent = 1
\* C20 as stated: the request carries every header the caller passed with the
\* caller's value, the bearer header being added next to them when a token is
\* stored and no authorization header being added otherwise.
C20_NoCallerHeaderOverwritten ==
    \A s \in clients : Requested(s) =>
        /\ \A h \in HeaderNames :
              hist[s].supplied[h] # Absent => net[s].headers[h] = hist[s].supplied[h]
        /\ ~Truthy(token[s]) => net[s].headers = hist[s].supplied
\* C20: the request carries every header the caller passed under another name
\* than Authorization with the caller's value; its Authorization header is the
\* bearer header when a token is stored, whatever the caller passed under that
\* name, and the caller's own (or none) when no token is stored.
C20_BearerReplacesOnlyAuthorization ==
    \A s \in clients : Requested(s) =>
        /\ \A h \in HeaderNames \ {"Authorization"} :
              net[s].headers[h] = hist[s].supplied[h]
        /\ Truthy(token[s]) => net[s].headers["Authorization"] = "Bearer " \o token[s]
        /\ ~Truthy(token[s]) => net[s].headers = hist[s].supplied
\* a request of a session that holds a token, whose caller passed an
\* Authorization header and another header
C20_Witness ==
    \E s \in clients :
        /\ Requested(s) /\ token[s] = "t1"
        /\ hist[s].supplied["Authorization"] = "v1" /\ hist[s].supplied["Accept"] = "v2"
        /\ net[s].headers["Authorization"] = "Bearer t1" /\ net[s].headers["Accept"] = "v2"

====
